---- MODULE Spec2Model ----
(***************************************************************************)
(* AI Planet workflow builder: the backend services (embeddings_service,   *)
(* doc_ingest, workflow_engine, the /workflow/run endpoint) as printed in  *)
(* docs/Source_Code_Documentation.md, and the React front end (ChatModal,  *)
(* App, Canvas, PalettePanel, ConfigPanel).                               *)
(*                                                                         *)
(* Strings are sequences of one-character strings, so that slicing         *)
(* (prompt[:100], text[i:i+CHUNK_SIZE]) and concatenation are computed.    *)
(* A float produced by create_dummy_embedding is the integer numerator of  *)
(* the value over 2^31: (int(chunk,16)/16^8 - 0.5)*2 = (n - 2^31)/2^31,    *)
(* which is exact in binary floating point for every 32-bit n.             *)
(***************************************************************************)
EXTENDS Integers, Sequences, FiniteSets, TLC

VARIABLES
    settings,      \* process-wide provider configuration (has_gemini_key, ...)
    embedLog,      \* the create_embedding calls made so far: <<[text, vec]>>
    doc,           \* doc_ingest: the extracted text of the document at hand
    chunkSize,     \* doc_ingest: the chunk size in use
    chunks,        \* doc_ingest: the chunk list built from doc (Nothing before)
    request,       \* /workflow/run: the request body being served, or Nothing
    response,      \* /workflow/run: the response returned for request, or Nothing
    calls,         \* /workflow/run: provider calls made while serving request
    world,         \* /workflow/run: what the index and the providers did meanwhile
    query,         \* ChatModal: useState query
    customPrompt,  \* ChatModal: useState customPrompt
    chat,          \* ChatModal: useState chat
    loading,       \* ChatModal: useState loading
    inflight,      \* ChatModal: the pending onRunWorkflow promise, or Nothing
    settled,       \* ChatModal: what each finished submit() left behind (history)
    workflowDefinition,  \* App: useState workflowDefinition (Nothing for null)
    frame,         \* run_workflow: its locals and position while it executes
    collection,    \* the "documents" collection of the vector index: its entries
    upload,        \* POST /docs/upload: the handler's position and locals
    ingestLog,     \* the uploads handled so far: the rows handed to col.add (batch),
                   \* the rows the collection gained (wrote) and lost by it
    canvas,        \* Canvas: useState nodes, edges, validationErrors, notification
    clock,         \* Date.now()
    checked,       \* front end: what the last handler (Build Check, Save Workflow,
                   \* a change in the ConfigPanel) saw and did
    panel          \* ConfigPanel: its node prop (Canvas.selectedNode) and useState config

embedVars == <<settings, embedLog>>
ingestVars == <<doc, chunkSize, chunks>>
runVars == <<request, response, calls, world>>
chatVars == <<query, customPrompt, chat, loading, inflight, settled, workflowDefinition>>
engineVars == <<frame>>
indexVars == <<collection, upload, ingestLog>>
canvasVars == <<canvas, clock, checked>>
panelVars == <<panel>>
vars == <<settings, embedLog, doc, chunkSize, chunks, request, response, calls, world,
          query, customPrompt, chat, loading, inflight, settled, workflowDefinition,
          frame, collection, upload, ingestLog, canvas, clock, checked, panel>>

\* Python's None and JavaScript's null where a string may stand: a sequence
\* that is no string of characters
None == <<"None">>
\* the absent value of a variable that holds a record
Nothing == [kind |-> "none"]

(***************************************************************************)
(* Bounds of the model.                                                    *)
(***************************************************************************)
MaxCalls == 2        \* create_embedding calls recorded in embedLog
MaxTextLen == 4      \* longest extracted document text
MaxChunkSize == 3    \* largest chunk size tried

(***************************************************************************)
(* Python helpers.                                                         *)
(***************************************************************************)
Min(a, b) == IF a < b THEN a ELSE b

\* s[:n]
Take(s, n) == SubSeq(s, 1, Min(n, Len(s)))

\* s[a:b] with 0 <= a, Python's half-open slice, clipped at len(s)
Slice(s, a, b) == SubSeq(s, a + 1, Min(b, Len(s)))

\* range(0, n, step) as the sequence of its values
RangeStep(n, step) == [k \in 1..((n + step - 1) \div step) |-> (k - 1) * step]

RECURSIVE Flatten(_)
Flatten(ss) == IF ss = <<>> THEN <<>> ELSE Head(ss) \o Flatten(Tail(ss))

\* sep.join(parts)
RECURSIVE Join(_, _)
Join(sep, parts) ==
    IF parts = <<>> THEN <<>>
    ELSE IF Len(parts) = 1 THEN parts[1]
    ELSE parts[1] \o sep \o Join(sep, Tail(parts))

Range(f) == {f[k] : k \in DOMAIN f}

IsPrefix(p, s) == Len(p) <= Len(s) /\ SubSeq(s, 1, Len(p)) = p

\* p occurs in s as a contiguous substring
Contains(s, p) == \E k \in 0..(Len(s) - Len(p)) : SubSeq(s, k + 1, k + Len(p)) = p

(***************************************************************************)
(* embeddings_service.py                                                   *)
(***************************************************************************)
DIMENSION == 1536      \* create_dummy_embedding(text, dimension=1536)
GEMINI_DIM == 768      \* if len(embedding) == 768
HASH_STEP == 8         \* range(0, dimension, 8); 8 hex digits per value
HEX_LEN == 32          \* len(hashlib.md5(..).hexdigest())

EmbedAlphabet == {"a", "b"}
EmbedTexts == {<<>>, <<"a">>, <<"b">>, <<"a", "b">>}

Ord(c) == CASE c = "a" -> 97 [] c = "b" -> 98 [] OTHER -> 63

RECURSIVE OrdSum(_, _)
OrdSum(text, k) ==
    IF text = <<>> THEN 0 ELSE (Ord(Head(text)) * k + OrdSum(Tail(text), k + 2)) % 65536

\* hashlib.md5(text.encode()).hexdigest(): 32 hex digits (as 0..15) that are
\* a fixed function of the text alone.  The library digest is stood in for by
\* a mixing function with the two properties the callers rely on: the same
\* text always gives the same digits, and there are always 32 of them.
md5_hexdigest(text) ==
    [i \in 1..HEX_LEN |-> (OrdSum(text, i) + 7 * i + 13 * Len(text)) % 16]

\* chunk.ljust(8, '0')
ljust(chunk, width) == chunk \o [k \in 1..(width - Len(chunk)) |-> 0]

\* int(digits, 16) for up to 7 hex digits (below 2^28)
RECURSIVE HexInt(_)
HexInt(digits) ==
    IF digits = <<>> THEN 0
    ELSE HexInt(SubSeq(digits, 1, Len(digits) - 1)) * 16 + digits[Len(digits)]

\* (int(chunk, 16) / 16**8 - 0.5) * 2, as its numerator over 2^31
DummyValue(chunk) == (chunk[1] - 8) * 268435456 + HexInt(Tail(chunk))

\* one value per i in range(0, dimension, 8), then embedding[:dimension]
create_dummy_embedding(text, dimension) ==
    LET text_hash == md5_hexdigest(text)
        steps == RangeStep(dimension, HASH_STEP)
        embedding == [k \in 1..Len(steps) |->
            DummyValue(ljust(Slice(text_hash, steps[k] % Len(text_hash),
                                   (steps[k] % Len(text_hash)) + HASH_STEP), HASH_STEP))]
    IN  Take(embedding, dimension)

\* the chunk texts that ingestion embeds: the pieces of the ingested documents
RECURSIVE Alternating(_, _)
Alternating(first, n) ==
    IF n = 0 THEN <<>>
    ELSE <<first>> \o Alternating(IF first = "a" THEN "b" ELSE "a", n - 1)
ChunkTexts == {Alternating(c, n) : c \in EmbedAlphabet, n \in 0..MaxChunkSize}

\* create_dummy_embedding(text, 1536), computed once for the texts of the model
dummy_table == [t \in EmbedTexts \cup ChunkTexts |-> create_dummy_embedding(t, DIMENSION)]
\* the mutant of C8: a fallback vector that depends on the calls made before
dummy_embedding_counted(text) ==
    [create_dummy_embedding(text, HASH_STEP) EXCEPT ![1] = Len(embedLog)]

dummy_embedding(text) ==
    IF text \in DOMAIN dummy_table THEN dummy_table[text]
    ELSE create_dummy_embedding(text, DIMENSION)

\* What a network embedding provider does with one call: it returns a vector
\* (models/embedding-001 one of 768 entries, OpenAI one of 1536), or the call
\* raises (msg is what str(e) contains).
ProviderVector(len, fill) == [k \in 1..len |-> fill]
EmbedOutcomes ==
    [kind : {"ok"}, len : {GEMINI_DIM}, fill : {1}, msg : {""}]
        \cup [kind : {"raise"}, len : {0}, fill : {0}, msg : {"429", "500"}]
OpenAIEmbedOutcomes ==
    [kind : {"ok"}, len : {DIMENSION}, fill : {2}, msg : {""}]
        \cup [kind : {"raise"}, len : {0}, fill : {0}, msg : {"500"}]

\* embeddings_service.create_openai_embedding is imported and called but not
\* printed: the provider's vector on success, and on failure the chain's last
\* resort, the hash embedding (spec 4.3).
create_openai_embedding(text, oa) ==
    IF oa.kind = "ok" THEN ProviderVector(oa.len, oa.fill)
    ELSE dummy_embedding(text)

create_gemini_embedding(text, gem, oa) ==
    IF gem.kind = "ok"
    THEN LET embedding == ProviderVector(gem.len, gem.fill)
         IN  IF Len(embedding) = GEMINI_DIM
             THEN embedding \o [k \in 1..(DIMENSION - GEMINI_DIM) |-> 0]
             ELSE embedding
    ELSE IF gem.msg = "429" /\ settings.has_openai_key
         THEN create_openai_embedding(text, oa)
         ELSE dummy_embedding(text)

create_embedding(text, gem, oa) ==
    IF settings.EMBEDDING_PROVIDER = "gemini" /\ settings.has_gemini_key
    THEN create_gemini_embedding(text, gem, oa)
    ELSE IF settings.has_openai_key
         THEN create_openai_embedding(text, oa)
         ELSE dummy_embedding(text)

\* The providers one create_embedding call reaches, in the order it reaches
\* them: "gemini" for genai.embed_content, "openai" for the OpenAI call, "hash"
\* for create_dummy_embedding.  Each follows the branches of the function it
\* is named after.
calls_of_openai_embedding(oa) ==
    IF oa.kind = "ok" THEN <<"openai">> ELSE <<"openai", "hash">>

calls_of_gemini_embedding(gem, oa) ==
    IF gem.kind = "ok"
    THEN <<"gemini">>
    ELSE IF gem.msg = "429" /\ settings.has_openai_key
         THEN <<"gemini">> \o calls_of_openai_embedding(oa)
         ELSE <<"gemini", "hash">>

calls_of_create_embedding(gem, oa) ==
    IF settings.EMBEDDING_PROVIDER = "gemini" /\ settings.has_gemini_key
    THEN calls_of_gemini_embedding(gem, oa)
    ELSE IF settings.has_openai_key
         THEN calls_of_openai_embedding(oa)
         ELSE <<"hash">>

\* what genai.embed_content may answer when the service or the model behind
\* the name changes: a vector of another length than 768 (the code tests the
\* length it received, line 435)
OtherLengthOutcomes ==
    [kind : {"ok"}, len : {GEMINI_DIM \div 2}, fill : {1}, msg : {""}]

Settings ==
    [EMBEDDING_PROVIDER : {"gemini", "openai"},
     has_gemini_key : BOOLEAN, has_openai_key : BOOLEAN, openai_client : BOOLEAN]

NoProvider(s) ==
    ~(s.EMBEDDING_PROVIDER = "gemini" /\ s.has_gemini_key) /\ ~s.has_openai_key

(***************************************************************************)
(* doc_ingest.py: the chunker of ingest_pdf_bytes                          *)
(***************************************************************************)
RECURSIVE SeqsUpTo(_, _)
SeqsUpTo(S, n) ==
    IF n = 0 THEN {<<>>}
    ELSE LET shorter == SeqsUpTo(S, n - 1)
         IN  shorter \cup {Append(t, c) : t \in shorter, c \in S}

DocTexts == SeqsUpTo(EmbedAlphabet, MaxTextLen)

\* the mutant of C7: a slice that stops one character early, text[i:i+size-1]
chunk_short(text, size) ==
    LET starts == RangeStep(Len(text), size)
    IN  [k \in 1..Len(starts) |-> Slice(text, starts[k], starts[k] + size - 1)]

\* chunks = [text[i:i+CHUNK_SIZE] for i in range(0, len(text), CHUNK_SIZE)]
chunk(text, size) ==
    LET starts == RangeStep(Len(text), size)
    IN  [k \in 1..Len(starts) |-> Slice(text, starts[k], starts[k] + size)]

(***************************************************************************)
(* doc_ingest.py: ingest_pdf_bytes and the collection it writes to         *)
(***************************************************************************)
MaxUploads == 2      \* uploads handled in one behaviour

Filenames == {<<"f">>, <<"g">>}
\* the texts extract_text_from_pdf_bytes yields for the uploaded files
IngestTexts ==
    {<<>>, Alternating("a", MaxTextLen - 1), Alternating("a", MaxTextLen),
     Alternating("b", MaxTextLen)}

\* str(i) for the ordinals that occur
Str(i) ==
    CASE i = 0 -> <<"0">> [] i = 1 -> <<"1">> [] i = 2 -> <<"2">> [] i = 3 -> <<"3">>
      [] i = 4 -> <<"4">> [] i = 5 -> <<"5">> [] i = 6 -> <<"6">> [] i = 7 -> <<"7">>
      [] i = 8 -> <<"8">> [] OTHER -> <<"9">>

\* f"{filename}::{i}"
chunk_id(filename, i) == filename \o <<":", ":">> \o Str(i)

\* the four lists ids, docs, metadatas, embeddings built by the loop over
\* enumerate(chunks), as the list of their rows; upload_doc passes no metadata
batch_of(filename, text, size, gem, oa) ==
    [k \in 1..Len(chunk(text, size)) |->
        [id |-> chunk_id(filename, k - 1),
         document |-> chunk(text, size)[k],
         metadata |-> [source |-> filename, chunk |-> k - 1],
         embedding |-> create_embedding(chunk(text, size)[k], gem, oa)]]

IdsOf(entries) == {e.id : e \in entries}

\* the mutant of C15: an add that writes the last row without its embedding
col_add_torn(coll, batch, lib) ==
    [raised |-> FALSE,
     collection |-> coll \cup {IF k = Len(batch) THEN [batch[k] EXCEPT !.embedding = <<>>]
                                ELSE batch[k] : k \in DOMAIN batch}]

\* col.add(ids=.., documents=.., metadatas=.., embeddings=..) of chromadb: the
\* rows are inserted whole.  A row whose id the collection already holds does
\* not replace the stored one: the library either skips that row with a
\* warning or raises without writing (lib); an empty list of ids is accepted
\* or refused likewise.
col_add(coll, batch, lib) ==
    IF lib = "raises" /\ (batch = <<>> \/ IdsOf(Range(batch)) \cap IdsOf(coll) # {})
    THEN [raised |-> TRUE, collection |-> coll]
    ELSE [raised |-> FALSE,
          collection |-> coll \cup {e \in Range(batch) : e.id \notin IdsOf(coll)}]

\* the end of ingest_pdf_bytes: col.add of the rows built, and the return value
ingest_result(batch, added) ==
    [kind |-> IF added.raised THEN "raise" ELSE "ok",
     chunks_indexed |-> Len(batch),
     batch |-> batch,
     collection |-> added.collection]

add_and_return(batch, coll, lib) == ingest_result(batch, col_add(coll, batch, lib))

\* ingest_pdf_bytes(filename, file_bytes): the rows it hands to col.add, what
\* the collection holds afterwards, and what it returns
ingest_pdf_bytes(filename, text, size, coll, gem, oa, lib) ==
    add_and_return(batch_of(filename, text, size, gem, oa), coll, lib)

(***************************************************************************)
(* workflow_engine.py and the /workflow/run endpoint                       *)
(***************************************************************************)
MaxNodes == 3        \* most nodes in a submitted graph definition
KB_K == 4            \* retrieve_context_from_kb(query, k=4)
PROMPT_ECHO == 100   \* prompt[:100]

NodeTypes == {"UserQuery", "KnowledgeBase", "LLMEngine", "Output"}
\* what buildDefinition sends for a node without data.type
SentTypes == NodeTypes \cup {"default"}

\* node.data.config as addComponent creates it ({}): an option that is not
\* set reads as a falsy value (config.maxResults || 5, config.customPrompt || '')
EmptyConfig == [maxResults |-> 0, similarityThreshold |-> 0, customPrompt |-> <<>>]

\* ConfigPanel: the defaults shown for an option that is not set, and an
\* option the user picked; a similarity is counted in tenths (0.3 is 3)
DEFAULT_MAX_RESULTS == 5
DEFAULT_THRESHOLD == 3
StrictKbConfig == [maxResults |-> 3, similarityThreshold |-> 9, customPrompt |-> <<>>]
P_Formal == <<"B", "e", " ", "f", "o", "r", "m", "a", "l">>
PromptedLlmConfig == [maxResults |-> 0, similarityThreshold |-> 0, customPrompt |-> P_Formal]

\* node lists: the node at position k has id k; config is the node's data.config
NodeLists ==
    UNION {{[k \in 1..n |-> [id |-> k, type |-> ts[k], config |-> EmptyConfig]]
            : ts \in [1..n -> SentTypes]}
           : n \in 0..MaxNodes}

\* the edge lists tried for a graph of n nodes: none, the chain 1 -> 2 -> ..
\* -> n, and each of the two with an edge n -> n+1 to a node that is not there
EdgeChoices(n) ==
    LET chain == {[source |-> k, target |-> k + 1] : k \in 1..(n - 1)}
        dangling == {[source |-> n, target |-> n + 1]}
    IN  {{}, chain, chain \cup dangling, dangling}

\* graphs whose nodes were configured in the ConfigPanel before saving:
\* UserQuery -> KnowledgeBase(maxResults 3, similarityThreshold 0.9) -> LLMEngine
strictRagWorkflow ==
    [nodes |-> <<[id |-> 1, type |-> "UserQuery", config |-> EmptyConfig],
                 [id |-> 2, type |-> "KnowledgeBase", config |-> StrictKbConfig],
                 [id |-> 3, type |-> "LLMEngine", config |-> EmptyConfig]>>,
     edges |-> {[source |-> 1, target |-> 2], [source |-> 2, target |-> 3]}]
\* UserQuery -> LLMEngine(customPrompt "Be formal") -> Output
promptedWorkflow ==
    [nodes |-> <<[id |-> 1, type |-> "UserQuery", config |-> EmptyConfig],
                 [id |-> 2, type |-> "LLMEngine", config |-> PromptedLlmConfig],
                 [id |-> 3, type |-> "Output", config |-> EmptyConfig]>>,
     edges |-> {[source |-> 1, target |-> 2], [source |-> 2, target |-> 3]}]
ConfiguredDefinitions == {strictRagWorkflow, promptedWorkflow}

Definitions ==
    UNION {{[nodes |-> ns, edges |-> es] : es \in EdgeChoices(Len(ns))}
           : ns \in NodeLists}
        \cup ConfiguredDefinitions

S_Context == <<"C", "o", "n", "t", "e", "x", "t", ":", "\n">>
S_Query == <<"Q", "u", "e", "r", "y", ":", "\n">>
S_Instructions ==
    <<"I", "n", "s", "t", "r", "u", "c", "t", "i", "o", "n", "s", ":", "\n">>
S_Sep == <<"\n", "\n">>
S_TestResponse ==
    <<"T", "e", "s", "t", " ", "r", "e", "s", "p", "o", "n", "s", "e", ":", " ", "'">>
S_TestTail == <<".", ".", ".", "'">>
S_ServiceError ==
    <<"A", "I", " ", "s", "e", "r", "v", "i", "c", "e", " ", "e", "r", "r", "o", "r",
      ":", " ">>
S_ErrorTail == <<".", ".", ".">>

E_MissingUserQuery == "Workflow must include a UserQuery node"

Q_TwoPlusTwo == <<"2", "+", "2", "?">>
Q_Long == [k \in 1..(PROMPT_ECHO + 1) |-> "x"]
Queries == {Q_TwoPlusTwo, Q_Long}
P_Brief == <<"B", "e", " ", "b", "r", "i", "e", "f">>
CustomPrompts == {None, P_Brief}

\* the documents of the collection that col.query ranks nearest to the query
Doc_A == <<"d", "o", "c", "A">>
Doc_B == <<"d", "o", "c", "B">>
Doc_C == <<"d", "o", "c", "C">>
Doc_D == <<"d", "o", "c", "D">>
Doc_E == <<"d", "o", "c", "E">>
StoredDocs == {<<>>, <<Doc_A>>, <<Doc_A, Doc_B>>, <<Doc_A, Doc_B, Doc_C, Doc_D, Doc_E>>}

\* results["distances"]: the cosine distance of a stored document to the query,
\* in tenths; the collection is created with hnsw:space cosine, so the
\* similarity of a document is 1 - distance (10 - distance in tenths)
DocDistance(d) ==
    CASE d = Doc_A -> 1 [] d = Doc_B -> 4 [] d = Doc_C -> 6 [] d = Doc_D -> 8
      [] OTHER -> 9
DocSimilarity(d) == 10 - DocDistance(d)

\* what the generation provider does with one call
A_Four == <<"4">>
LlmOutcomes == {[kind |-> "ok", text |-> A_Four], [kind |-> "raise", text |-> <<>>]}

\* Python truthiness of an optional string
Truthy(s) == s # None /\ s # <<>>

\* col.query(query_embeddings=[q_emb], n_results=k): the nearest documents,
\* best first, at most n_results of them
col_query(stored, n_results) == Take(stored, n_results)

retrieve_context_from_kb(q, stored, oa) ==
    LET q_emb == create_openai_embedding(q, oa)
    IN  [docs |-> col_query(stored, KB_K),
         calls |-> <<"create_openai_embedding", "col.query">>]

\* the mutant of C2: call_llm_system without its try/except
call_llm_system_uncaught(prompt, system_message, llm) ==
    IF settings.has_openai_key /\ settings.openai_client
    THEN IF llm.kind = "ok"
         THEN [kind |-> "ok", value |-> llm.text, calls |-> <<"chat.completions">>, prompt |-> prompt]
         ELSE [kind |-> "raise", value |-> <<>>, calls |-> <<"chat.completions">>, prompt |-> prompt]
    ELSE [kind |-> "ok",
          value |-> S_TestResponse \o Take(prompt, PROMPT_ECHO) \o S_TestTail,
          calls |-> <<>>, prompt |-> prompt]

\* the mutant of C9: the stub answers without echoing the prompt
call_llm_system_noecho(prompt, system_message, llm) ==
    IF settings.has_openai_key /\ settings.openai_client
    THEN IF llm.kind = "ok"
         THEN [kind |-> "ok", value |-> llm.text, calls |-> <<"chat.completions">>, prompt |-> prompt]
         ELSE [kind |-> "ok",
               value |-> S_ServiceError \o Take(prompt, PROMPT_ECHO) \o S_ErrorTail,
               calls |-> <<"chat.completions">>, prompt |-> prompt]
    ELSE [kind |-> "ok", value |-> S_TestResponse \o S_TestTail, calls |-> <<>>,
          prompt |-> prompt]

call_llm_system(prompt, system_message, llm) ==
    IF settings.has_openai_key /\ settings.openai_client
    THEN IF llm.kind = "ok"
         THEN [kind |-> "ok", value |-> llm.text, calls |-> <<"chat.completions">>, prompt |-> prompt]
         ELSE [kind |-> "ok",
               value |-> S_ServiceError \o Take(prompt, PROMPT_ECHO) \o S_ErrorTail,
               calls |-> <<"chat.completions">>, prompt |-> prompt]
    ELSE [kind |-> "ok",
          value |-> S_TestResponse \o Take(prompt, PROMPT_ECHO) \o S_TestTail,
          calls |-> <<>>, prompt |-> prompt]

\* the mutant of C11: the context section appended whether or not there is
\* any context
final_prompt_always_context(definition, user_query, custom_prompt, stored, oa) ==
    LET nodes == definition.nodes
        has_kb == \E k \in DOMAIN nodes : nodes[k].type = "KnowledgeBase"
        context == IF has_kb
                   THEN Join(S_Sep, retrieve_context_from_kb(user_query, stored, oa).docs)
                   ELSE <<>>
        prompt_parts ==
            (IF has_kb THEN <<S_Context \o context>> ELSE <<>>)
            \o <<S_Query \o user_query>>
            \o (IF Truthy(custom_prompt) THEN <<S_Instructions \o custom_prompt>>
                ELSE <<>>)
    IN  Join(S_Sep, prompt_parts)

\* the mutant of C19: the query section put before the context section
final_prompt_query_first(definition, user_query, custom_prompt, stored, oa) ==
    LET nodes == definition.nodes
        has_kb == \E k \in DOMAIN nodes : nodes[k].type = "KnowledgeBase"
        context == IF has_kb
                   THEN Join(S_Sep, retrieve_context_from_kb(user_query, stored, oa).docs)
                   ELSE <<>>
        prompt_parts ==
            <<S_Query \o user_query>>
            \o (IF context # <<>> THEN <<S_Context \o context>> ELSE <<>>)
            \o (IF Truthy(custom_prompt) THEN <<S_Instructions \o custom_prompt>>
                ELSE <<>>)
    IN  Join(S_Sep, prompt_parts)

\* final_prompt of run_workflow
final_prompt(definition, user_query, custom_prompt, stored, oa) ==
    LET nodes == definition.nodes
        has_kb == \E k \in DOMAIN nodes : nodes[k].type = "KnowledgeBase"
        context == IF has_kb
                   THEN Join(S_Sep, retrieve_context_from_kb(user_query, stored, oa).docs)
                   ELSE <<>>
        prompt_parts ==
            (IF context # <<>> THEN <<S_Context \o context>> ELSE <<>>)
            \o <<S_Query \o user_query>>
            \o (IF Truthy(custom_prompt) THEN <<S_Instructions \o custom_prompt>>
                ELSE <<>>)
    IN  Join(S_Sep, prompt_parts)

\* what run_workflow returns, with what it did on the way: kb is the outcome
\* of its retrieval step, r the outcome of call_llm_system(final_prompt)
returning(kb, r) ==
    [kind |-> r.kind, value |-> r.value, calls |-> kb.calls \o r.calls,
     prompt |-> r.prompt, docs |-> kb.docs]

run_workflow(definition, user_query, custom_prompt, stored, oa, llm) ==
    returning(
        IF \E k \in DOMAIN definition.nodes :
               definition.nodes[k].type = "KnowledgeBase"
        THEN retrieve_context_from_kb(user_query, stored, oa)
        ELSE [docs |-> <<>>, calls |-> <<>>],
        call_llm_system(
            final_prompt(definition, user_query, custom_prompt, stored, oa),
            None, llm))

\* the response of the endpoint for what run_workflow returned (or raised)
answerOf(resp) ==
    IF resp.kind = "raise"
    THEN [kind |-> "exception", error |-> "", answer |-> <<>>, calls |-> resp.calls,
          prompt |-> resp.prompt, docs |-> resp.docs]
    ELSE [kind |-> "answer", error |-> "", answer |-> resp.value, calls |-> resp.calls,
          prompt |-> resp.prompt, docs |-> resp.docs]

\* the mutant of C3: the UserQuery check made after the workflow has run
run_workflow_endpoint_late(definition, q, custom_prompt, stored, oa, llm) ==
    LET types == [k \in DOMAIN definition.nodes |-> definition.nodes[k].type]
        resp == run_workflow(definition, q, custom_prompt, stored, oa, llm)
    IN  IF "UserQuery" \notin Range(types)
        THEN [kind |-> "error", error |-> E_MissingUserQuery, answer |-> <<>>,
              calls |-> resp.calls, prompt |-> None, docs |-> <<>>]
        ELSE answerOf(resp)

run_workflow_endpoint(definition, q, custom_prompt, stored, oa, llm) ==
    LET types == [k \in DOMAIN definition.nodes |-> definition.nodes[k].type]
    IN  IF "UserQuery" \notin Range(types)
        THEN [kind |-> "error", error |-> E_MissingUserQuery, answer |-> <<>>,
              calls |-> <<>>, prompt |-> None, docs |-> <<>>]
        ELSE answerOf(run_workflow(definition, q, custom_prompt, stored, oa, llm))

(***************************************************************************)
(* run_workflow statement by statement: frame holds its parameters and     *)
(* locals, frame.pc the statement it is about to execute, and frame.ran    *)
(* the node types whose work (retrieval for KnowledgeBase, generation for  *)
(* LLMEngine) it has carried out so far, in order.                         *)
(***************************************************************************)
\* def run_workflow(workflow_definition, user_query, custom_prompt=None):
\*     nodes = ...; has_kb = ...; context = ""
enter_run_workflow(definition, user_query, custom_prompt) ==
    [pc |-> "if has_kb", workflow_definition |-> definition,
     user_query |-> user_query, custom_prompt |-> custom_prompt,
     has_kb |-> \E k \in DOMAIN definition.nodes :
                   definition.nodes[k].type = "KnowledgeBase",
     context |-> <<>>, final_prompt |-> None, ran |-> <<>>, result |-> None]

\* the mutant of C16: a retrieval step that leaves the query rewritten
retrieve_step_rewriting(f, stored, oa) ==
    IF f.has_kb
    THEN [f EXCEPT !.context = Join(S_Sep, retrieve_context_from_kb(f.user_query,
                                                                    stored, oa).docs),
                   !.user_query = <<>>,
                   !.ran = Append(@, "KnowledgeBase"), !.pc = "prompt_parts"]
    ELSE [f EXCEPT !.pc = "prompt_parts"]

\* if has_kb: docs, _ = retrieve_context_from_kb(user_query)
\*            context = "\n\n".join(docs)
retrieve_step(f, stored, oa) ==
    IF f.has_kb
    THEN [f EXCEPT !.context = Join(S_Sep, retrieve_context_from_kb(f.user_query,
                                                                    stored, oa).docs),
                   !.ran = Append(@, "KnowledgeBase"), !.pc = "prompt_parts"]
    ELSE [f EXCEPT !.pc = "prompt_parts"]

\* prompt_parts = [...]; final_prompt = "\n\n".join(prompt_parts)
compose_step(f) ==
    [f EXCEPT !.final_prompt =
                  Join(S_Sep,
                       (IF f.context # <<>> THEN <<S_Context \o f.context>> ELSE <<>>)
                       \o <<S_Query \o f.user_query>>
                       \o (IF Truthy(f.custom_prompt)
                           THEN <<S_Instructions \o f.custom_prompt>> ELSE <<>>)),
              !.pc = "call_llm_system"]

\* return call_llm_system(final_prompt)
generate_step(f, llm) ==
    [f EXCEPT !.result = call_llm_system(f.final_prompt, None, llm).value,
              !.ran = Append(@, "LLMEngine"), !.pc = "return"]

(***************************************************************************)
(* The front end: App.jsx and ChatModal                                    *)
(***************************************************************************)
MaxSubmits == 2      \* queries submitted in one chat session

\* App.jsx defaultWorkflow: UserQuery -> LLMEngine -> Output
defaultWorkflow ==
    [nodes |-> <<[id |-> 1, type |-> "UserQuery", config |-> EmptyConfig],
                 [id |-> 2, type |-> "LLMEngine", config |-> EmptyConfig],
                 [id |-> 3, type |-> "Output", config |-> EmptyConfig]>>,
     edges |-> {[source |-> 1, target |-> 2], [source |-> 2, target |-> 3]}]

\* a definition as Canvas.handleSave hands it to onSave:
\* UserQuery -> KnowledgeBase -> LLMEngine -> Output
savedRagWorkflow ==
    [nodes |-> <<[id |-> 1, type |-> "UserQuery", config |-> EmptyConfig],
                 [id |-> 2, type |-> "KnowledgeBase", config |-> EmptyConfig],
                 [id |-> 3, type |-> "LLMEngine", config |-> EmptyConfig],
                 [id |-> 4, type |-> "Output", config |-> EmptyConfig]>>,
     edges |-> {[source |-> 1, target |-> 2], [source |-> 2, target |-> 3],
                [source |-> 3, target |-> 4]}]

\* JavaScript's undefined where a string may stand
Undefined == <<"undefined">>

S_Apology ==
    <<"I", " ", "a", "p", "o", "l", "o", "g", "i", "z", "e", ",", " ", "b",
      "u", "t", " ", "I", " ", "e", "n", "c", "o", "u", "n", "t", "e", "r",
      "e", "d", " ", "a", "n", " ", "e", "r", "r", "o", "r", " ", "w", "h",
      "i", "l", "e", " ", "p", "r", "o", "c", "e", "s", "s", "i", "n", "g",
      " ", "y", "o", "u", "r", " ", "r", "e", "q", "u", "e", "s", "t", ".",
      " ", "P", "l", "e", "a", "s", "e", " ", "t", "r", "y", " ", "a", "g",
      "a", "i", "n", " ", "o", "r", " ", "c", "h", "e", "c", "k", " ", "i",
      "f", " ", "t", "h", "e", " ", "A", "I", " ", "s", "e", "r", "v", "i",
      "c", "e", " ", "i", "s", " ", "p", "r", "o", "p", "e", "r", "l", "y",
      " ", "c", "o", "n", "f", "i", "g", "u", "r", "e", "d", ".">>
S_Suggest1 ==
    <<"W", "h", "a", "t", " ", "c", "a", "n", " ", "y", "o", "u", " ", "h",
      "e", "l", "p", " ", "m", "e", " ", "w", "i", "t", "h", "?">>
S_Suggest2 ==
    <<"E", "x", "p", "l", "a", "i", "n", " ", "h", "o", "w", " ", "w", "o",
      "r", "k", "f", "l", "o", "w", "s", " ", "w", "o", "r", "k">>
S_Suggest3 ==
    <<"S", "h", "o", "w", " ", "m", "e", " ", "a", "n", " ", "e", "x", "a",
      "m", "p", "l", "e">>
Suggestions == {S_Suggest1, S_Suggest2, S_Suggest3}
TypedQueries == {<<>>, <<" ">>, Q_TwoPlusTwo}
TypedPrompts == {<<>>, P_Brief}

Whitespace == {" ", "\n", "\t"}
RECURSIVE TrimLeft(_)
TrimLeft(str) ==
    IF str # <<>> /\ Head(str) \in Whitespace THEN TrimLeft(Tail(str)) ELSE str
RECURSIVE TrimRight(_)
TrimRight(str) ==
    IF str # <<>> /\ str[Len(str)] \in Whitespace
    THEN TrimRight(SubSeq(str, 1, Len(str) - 1)) ELSE str
\* String.prototype.trim
trim(str) == TrimRight(TrimLeft(str))

\* JavaScript truthiness of a string, null or undefined
JsTruthy(v) == v \notin {None, Undefined, <<>>}

\* what the promise of handleRunWorkflow settles to for the endpoint's reply
\* r: response.data.answer, or a rejection when the HTTP exchange fails (net)
\* or the endpoint answers 500
settleWith(net, r) ==
    IF net = "fail" \/ r.kind = "exception"
    THEN [kind |-> "rejected", answer |-> Undefined]
    ELSE IF r.kind = "answer"
         THEN [kind |-> "resolved", answer |-> r.answer]
         ELSE [kind |-> "resolved", answer |-> Undefined]

\* App.handleRunWorkflow
handleRunWorkflow(q, custom_prompt, net, stored, oa, llm) ==
    settleWith(net,
               run_workflow_endpoint(
                   IF workflowDefinition # Nothing THEN workflowDefinition
                   ELSE defaultWorkflow,
                   q, custom_prompt, stored, oa, llm))

\* the mutant of C23: a run that always sends the built-in workflow
activeWorkflow_builtin(saved) == defaultWorkflow

\* const activeWorkflow = workflowDefinition || defaultWorkflow
activeWorkflow(saved) == IF saved # Nothing THEN saved ELSE defaultWorkflow

\* the mutant of C26: the reply written to the first message of the chat
setFirstBot(c, bot) ==
    [i \in DOMAIN c |-> IF i = 1 THEN [c[i] EXCEPT !.bot = bot] ELSE c[i]]

\* setChat(c => c.map((msg, i) => i === c.length - 1 ? {...msg, bot} : msg))
setLastBot(c, bot) ==
    [i \in DOMAIN c |-> IF i = Len(c) THEN [c[i] EXCEPT !.bot = bot] ELSE c[i]]

(***************************************************************************)
(* The front end: Canvas.jsx and the PalettePanel                          *)
(***************************************************************************)
MaxCanvasNodes == 4  \* most components on the canvas

\* PalettePanel COMPONENTS, by type
COMPONENTS == NodeTypes

\* component.type.toLowerCase()
toLowerCase(t) ==
    CASE t = "UserQuery" -> "userquery" [] t = "KnowledgeBase" -> "knowledgebase"
      [] t = "LLMEngine" -> "llmengine" [] OTHER -> "output"

\* PalettePanel.addComponent: the node it appends; now is Date.now()
newNode(component, now) ==
    [id |-> <<toLowerCase(component), "-", now>>,
     type |-> "default",
     data |-> [type |-> component, config |-> EmptyConfig]]

E_AddComponent == "Add at least one component to start building your workflow"
E_NoUserQuery == "Workflow must include a User Query component (starting point)"
E_NoOutput == "Workflow must include an Output component (ending point)"
E_NotConnected == "Components must be connected with lines to create a valid workflow"
E_Isolated == "component(s) are not connected to the workflow"

\* the ids an edge list connects: connectedNodes
connectedNodes(edges) == {e.source : e \in edges} \cup {e.target : e \in edges}

\* the mutant of C18: the required components looked up by node.type, which
\* addComponent sets to 'default', instead of node.data.type
validationErrorsOf_by_node_type(nodes, edges) ==
    IF Len(nodes) = 0 THEN <<E_AddComponent>>
    ELSE (IF \E k \in DOMAIN nodes : nodes[k].type = "UserQuery" THEN <<>>
          ELSE <<E_NoUserQuery>>)
         \o (IF \E k \in DOMAIN nodes : nodes[k].type = "Output" THEN <<>>
             ELSE <<E_NoOutput>>)
         \o (IF Len(nodes) > 1 /\ edges = {} THEN <<E_NotConnected>> ELSE <<>>)
         \o (IF {nodes[k].id : k \in DOMAIN nodes} \ connectedNodes(edges) # {}
                /\ Len(nodes) > 1
             THEN <<E_Isolated>> ELSE <<>>)

\* the mutant of C24: a validation that does not look for isolated nodes
validationErrorsOf_unaware_of_isolated(nodes, edges) ==
    IF Len(nodes) = 0 THEN <<E_AddComponent>>
    ELSE (IF \E k \in DOMAIN nodes : nodes[k].data.type = "UserQuery" THEN <<>>
          ELSE <<E_NoUserQuery>>)
         \o (IF \E k \in DOMAIN nodes : nodes[k].data.type = "Output" THEN <<>>
             ELSE <<E_NoOutput>>)
         \o (IF Len(nodes) > 1 /\ edges = {} THEN <<E_NotConnected>> ELSE <<>>)

\* validateWorkflow: the errors it collects (it returns errors.length === 0)
validationErrorsOf(nodes, edges) ==
    IF Len(nodes) = 0 THEN <<E_AddComponent>>
    ELSE (IF \E k \in DOMAIN nodes : nodes[k].data.type = "UserQuery" THEN <<>>
          ELSE <<E_NoUserQuery>>)
         \o (IF \E k \in DOMAIN nodes : nodes[k].data.type = "Output" THEN <<>>
             ELSE <<E_NoOutput>>)
         \o (IF Len(nodes) > 1 /\ edges = {} THEN <<E_NotConnected>> ELSE <<>>)
         \o (IF {nodes[k].id : k \in DOMAIN nodes} \ connectedNodes(edges) # {}
                /\ Len(nodes) > 1
             THEN <<E_Isolated>> ELSE <<>>)

\* buildDefinition
buildDefinition(nodes, edges) ==
    [nodes |-> [k \in DOMAIN nodes |->
                   [id |-> nodes[k].id, type |-> nodes[k].data.type,
                    config |-> nodes[k].data.config]],
     edges |-> edges]

N_Valid == "Workflow is valid and ready for execution!"
N_Failed == "Workflow validation failed. Check the errors panel."
N_Saved == "Workflow saved successfully!"
N_CannotSave == "Cannot save invalid workflow. Fix errors first."
N_Cleared == "Workflow cleared successfully"

\* what a Build Check or a Save Workflow click saw on the canvas and did
checkedAs(op, nodes, edges, errors, handed) ==
    [kind |-> op,
     allFour |-> \A t \in COMPONENTS : \E k \in DOMAIN nodes : nodes[k].data.type = t,
     allTouched |-> \A k \in DOMAIN nodes : nodes[k].id \in connectedNodes(edges),
     valid |-> errors = <<>>,
     handed |-> handed]

(***************************************************************************)
(* The front end: ConfigPanel.jsx and the node it is given by Canvas       *)
(***************************************************************************)
\* positions a node is dragged to
Positions == {0, 1}
\* the ids of the documents fetchDocuments lists
DocumentIds == {"d1", "d2"}

\* a node of the canvas with its position; one whose type names its
\* component, as the nodes of App.defaultWorkflow do, gets its form from
\* the panel (node.type === 'KnowledgeBase' && renderKnowledgeBaseConfig())
placed(node, component_type, position) ==
    [id |-> node.id, type |-> component_type, data |-> node.data, position |-> position]

\* { ...config, [key]: value }
withKey(config, key, value) ==
    [k \in DOMAIN config \cup {key} |-> IF k = key THEN value ELSE config[k]]

\* config.selectedDocuments || []
selectedDocumentsOf(config) ==
    IF "selectedDocuments" \in DOMAIN config THEN config.selectedDocuments ELSE <<>>

\* currentDocs.filter(id => id !== docId)
RECURSIVE without(_, _)
without(docs, docId) ==
    IF docs = <<>> THEN <<>>
    ELSE IF Head(docs) = docId THEN without(Tail(docs), docId)
         ELSE <<Head(docs)>> \o without(Tail(docs), docId)

\* the mutant of C30: a toggle that appends whether the id is listed or not
newDocs_appending(currentDocs, docId) == Append(currentDocs, docId)

\* handleDocumentToggle: newDocs
newDocs(currentDocs, docId) ==
    IF docId \in Range(currentDocs) THEN without(currentDocs, docId)
    ELSE Append(currentDocs, docId)

\* Canvas.onNodeUpdate: nds.map(node => node.id === nodeId ? updatedNode : node)
onNodeUpdate(nds, nodeId, updatedNode) ==
    [i \in DOMAIN nds |-> IF nds[i].id = nodeId THEN updatedNode ELSE nds[i]]

\* the node handleConfigChange hands to onNodeUpdate:
\* { ...node, data: { ...node.data, config: newConfig } }
updatedNodeOf(node, newConfig) == [node EXCEPT !.data.config = newConfig]

\* the forms the panel renders for its node, by node.type: the keys and
\* values their controls pass to handleConfigChange
FormOptions(node_type) ==
    CASE node_type = "KnowledgeBase" -> {<<"maxResults", 3>>, <<"maxResults", 10>>}
      [] node_type = "LLMEngine" -> {<<"customPrompt", P_Brief>>}
      [] OTHER -> {}

(***************************************************************************)
(* The state machines.  Each specification drives one service and leaves   *)
(* the variables of the others at rest.                                    *)
(***************************************************************************)
\* a configuration without any provider key
BareSettings ==
    [EMBEDDING_PROVIDER |-> "gemini", has_gemini_key |-> FALSE,
     has_openai_key |-> FALSE, openai_client |-> FALSE]

EmbedIdle == embedLog = <<>>
IngestIdle == doc = <<>> /\ chunkSize = 1 /\ chunks = Nothing
RunIdle == request = Nothing /\ response = Nothing /\ calls = <<>> /\ world = Nothing
EngineIdle == frame = Nothing
IndexIdle == collection = {} /\ upload = Nothing /\ ingestLog = <<>>
CanvasIdle ==
    /\ canvas = [nodes |-> <<>>, edges |-> {}, validationErrors |-> <<>>,
                 notification |-> "", notificationType |-> "success"]
    /\ clock = 0
    /\ checked = Nothing
\* no node selected; the panel's config state is {}
PanelIdle == panel = [node |-> Nothing, config |-> <<>>]
LaterIdle == EngineIdle /\ IndexIdle /\ CanvasIdle /\ PanelIdle

ChatIdle ==
    /\ query = <<>>
    /\ customPrompt = <<>>
    /\ chat = <<>>
    /\ loading = FALSE
    /\ inflight = Nothing
    /\ settled = {}
    /\ workflowDefinition = Nothing

(* ---- embeddings_service ---- *)
InitEmbed ==
    /\ settings \in {s \in Settings : s.openai_client = s.has_openai_key}
    /\ EmbedIdle /\ IngestIdle /\ RunIdle /\ ChatIdle /\ LaterIdle

CreateEmbedding ==
    /\ Len(embedLog) < MaxCalls
    /\ \E text \in EmbedTexts, gem \in EmbedOutcomes, oa \in OpenAIEmbedOutcomes :
        embedLog' = Append(embedLog,
                           [text |-> text, vec |-> create_embedding(text, gem, oa)])
    /\ UNCHANGED <<panelVars, engineVars, indexVars, canvasVars, settings, ingestVars, runVars, chatVars>>

NextEmbed == CreateEmbedding

SpecEmbed == InitEmbed /\ [][NextEmbed]_vars

(* ---- embeddings_service, with the provider calls of each embedding ---- *)
ChainTexts == {<<"a">>, <<"a", "b">>}

InitChain ==
    /\ settings \in {s \in Settings : s.openai_client = s.has_openai_key}
    /\ EmbedIdle /\ IngestIdle /\ RunIdle /\ ChatIdle /\ LaterIdle

\* one create_embedding(text) call; the entry keeps what the providers did
\* (gem, oa), which of them the call reached (tried) and what it returned
CreateEmbeddingVia ==
    /\ Len(embedLog) < MaxCalls
    /\ \E text \in ChainTexts, gem \in EmbedOutcomes \cup OtherLengthOutcomes,
          oa \in OpenAIEmbedOutcomes :
        embedLog' = Append(embedLog,
                           [text |-> text, gem |-> gem, oa |-> oa,
                            tried |-> calls_of_create_embedding(gem, oa),
                            vec |-> create_embedding(text, gem, oa)])
    /\ UNCHANGED <<panelVars, engineVars, indexVars, canvasVars, settings, ingestVars, runVars, chatVars>>

NextChain == CreateEmbeddingVia

SpecChain == InitChain /\ [][NextChain]_vars

(* ---- the chunker ---- *)
InitChunk ==
    /\ settings = BareSettings
    /\ doc \in DocTexts
    /\ chunkSize \in 1..MaxChunkSize
    /\ chunks = Nothing
    /\ EmbedIdle /\ RunIdle /\ ChatIdle /\ LaterIdle

ChunkText ==
    /\ chunks = Nothing
    /\ chunks' = [kind |-> "chunks", list |-> chunk(doc, chunkSize)]
    /\ UNCHANGED <<panelVars, engineVars, indexVars, canvasVars, settings, embedLog, doc, chunkSize, runVars, chatVars>>

NextChunk == ChunkText

SpecChunk == InitChunk /\ [][NextChunk]_vars

(* ---- POST /workflow/run ---- *)
\* the Gemini settings play no part on this path: retrieve_context_from_kb
\* calls create_openai_embedding directly
Init ==
    /\ settings \in {s \in Settings :
                        s.EMBEDDING_PROVIDER = "gemini" /\ ~s.has_gemini_key}
    /\ EmbedIdle /\ IngestIdle /\ RunIdle /\ ChatIdle /\ LaterIdle

RunWorkflowEndpoint ==
    /\ request = Nothing
    /\ \E definition \in Definitions, q \in Queries, custom_prompt \in CustomPrompts,
          stored \in StoredDocs, oa \in OpenAIEmbedOutcomes, llm \in LlmOutcomes :
        \E r \in {run_workflow_endpoint(definition, q, custom_prompt, stored, oa, llm)} :
            /\ request' = [kind |-> "run", definition |-> definition, query |-> q,
                           custom_prompt |-> custom_prompt]
            /\ response' = [kind |-> r.kind, error |-> r.error, answer |-> r.answer]
            /\ calls' = r.calls
            /\ world' = [kind |-> "world", stored |-> stored, llm |-> llm,
                         prompt |-> r.prompt, docs |-> r.docs]
    /\ UNCHANGED <<panelVars, engineVars, indexVars, canvasVars, settings, embedLog, ingestVars, chatVars>>

\* the response has been sent; the server waits for the next request
Respond ==
    /\ request # Nothing
    /\ request' = Nothing /\ response' = Nothing /\ calls' = <<>> /\ world' = Nothing
    /\ UNCHANGED <<panelVars, engineVars, indexVars, canvasVars, settings, embedLog, ingestVars, chatVars>>

Next == RunWorkflowEndpoint \/ Respond

Spec == Init /\ [][Next]_vars

(* ---- run_workflow, statement by statement ---- *)
\* the graphs that pass the endpoint's check and reach run_workflow
EngineDefinitions ==
    {d \in Definitions : \E k \in DOMAIN d.nodes : d.nodes[k].type = "UserQuery"}

InitEngine ==
    /\ settings \in {BareSettings,
                      [BareSettings EXCEPT !.has_openai_key = TRUE,
                                           !.openai_client = TRUE]}
    /\ EmbedIdle /\ IngestIdle /\ RunIdle /\ ChatIdle /\ LaterIdle

EnterRunWorkflow ==
    /\ frame = Nothing
    /\ \E definition \in EngineDefinitions, q \in Queries,
          custom_prompt \in CustomPrompts :
        /\ request' = [kind |-> "run", definition |-> definition, query |-> q,
                       custom_prompt |-> custom_prompt]
        /\ frame' = enter_run_workflow(definition, q, custom_prompt)
    /\ UNCHANGED <<panelVars, indexVars, canvasVars, embedVars, ingestVars, chatVars,
                   response, calls, world>>

RetrieveStep ==
    /\ frame # Nothing
    /\ frame.pc = "if has_kb"
    /\ \E stored \in StoredDocs, oa \in OpenAIEmbedOutcomes :
          frame' = retrieve_step(frame, stored, oa)
    /\ UNCHANGED <<panelVars, indexVars, canvasVars, embedVars, ingestVars, chatVars, runVars>>

ComposeStep ==
    /\ frame # Nothing
    /\ frame.pc = "prompt_parts"
    /\ frame' = compose_step(frame)
    /\ UNCHANGED <<panelVars, indexVars, canvasVars, embedVars, ingestVars, chatVars, runVars>>

GenerateStep ==
    /\ frame # Nothing
    /\ frame.pc = "call_llm_system"
    /\ \E llm \in LlmOutcomes : frame' = generate_step(frame, llm)
    /\ UNCHANGED <<panelVars, indexVars, canvasVars, embedVars, ingestVars, chatVars, runVars>>

\* the frame is popped and the endpoint sends {"answer": resp}
ReturnStep ==
    /\ frame # Nothing
    /\ frame.pc = "return"
    /\ frame' = Nothing
    /\ request' = Nothing
    /\ UNCHANGED <<panelVars, indexVars, canvasVars, embedVars, ingestVars, chatVars,
                   response, calls, world>>

NextEngine == EnterRunWorkflow \/ RetrieveStep \/ ComposeStep \/ GenerateStep \/ ReturnStep

SpecEngine == InitEngine /\ [][NextEngine]_vars

(* ---- POST /docs/upload and the readers of the collection ---- *)
\* upload_doc is a coroutine whose only await is file.read(): another request
\* is served only while it waits there; ingest_pdf_bytes then runs to its end
\* without yielding.
GeminiSettings ==
    [EMBEDDING_PROVIDER |-> "gemini", has_gemini_key |-> TRUE,
     has_openai_key |-> FALSE, openai_client |-> FALSE]

InitIngest ==
    /\ settings = GeminiSettings
    /\ chunkSize \in {MaxChunkSize - 1, MaxChunkSize}
    /\ doc = <<>> /\ chunks = Nothing
    /\ EmbedIdle /\ RunIdle /\ ChatIdle /\ LaterIdle

\* a request arrives; a file that is no PDF is refused with 400, otherwise
\* the handler waits for the bytes (text is what extraction will find in them)
UploadDoc ==
    /\ upload = Nothing
    /\ Len(ingestLog) < MaxUploads
    /\ \E filename \in Filenames, content_type \in {"application/pdf", "text/plain"},
          text \in IngestTexts :
        IF content_type # "application/pdf"
        THEN /\ response' = [kind |-> "error", status |-> 400, chunks_indexed |-> 0]
             /\ ingestLog' = Append(ingestLog,
                                    [kind |-> "refused", filename |-> filename,
                                     text |-> <<>>, batch |-> <<>>,
                                     wrote |-> {}, lost |-> {}, chunks_indexed |-> 0])
             /\ UNCHANGED upload
        ELSE /\ upload' = [pc |-> "await file.read()", filename |-> filename,
                           text |-> text]
             /\ response' = Nothing
             /\ UNCHANGED ingestLog
    /\ UNCHANGED <<panelVars, engineVars, canvasVars, embedVars, ingestVars, chatVars,
                   collection, request, calls, world>>

\* the bytes are there: result = ingest_pdf_bytes(file.filename, contents);
\* return {"status": "ok", **result}, or 500 when col.add raises
IngestPdfBytes ==
    /\ upload # Nothing
    /\ \E gem \in EmbedOutcomes, oa \in {o \in OpenAIEmbedOutcomes : o.kind = "raise"},
          lib \in {"skips", "raises"} :
        \E r \in {ingest_pdf_bytes(upload.filename, upload.text, chunkSize, collection,
                                    gem, oa, lib)} :
            /\ collection' = r.collection
            /\ ingestLog' = Append(ingestLog,
                                   [kind |-> IF r.kind = "ok" THEN "added" ELSE "raised",
                                    filename |-> upload.filename, text |-> upload.text,
                                    batch |-> r.batch,
                                    wrote |-> r.collection \ collection,
                                    lost |-> collection \ r.collection,
                                    chunks_indexed |-> r.chunks_indexed])
            /\ response' = IF r.kind = "ok"
                           THEN [kind |-> "ok", status |-> 200,
                                 chunks_indexed |-> r.chunks_indexed]
                           ELSE [kind |-> "exception", status |-> 500,
                                 chunks_indexed |-> 0]
    /\ upload' = Nothing
    /\ UNCHANGED <<panelVars, engineVars, canvasVars, embedVars, ingestVars, chatVars,
                   request, calls, world>>

\* the caller goes away while the handler waits for the bytes: the coroutine
\* is cancelled at its await
AbortUpload ==
    /\ upload # Nothing
    /\ upload' = Nothing
    /\ response' = [kind |-> "aborted", status |-> 0, chunks_indexed |-> 0]
    /\ ingestLog' = Append(ingestLog,
                           [kind |-> "aborted", filename |-> upload.filename,
                            text |-> <<>>, batch |-> <<>>,
                            wrote |-> {}, lost |-> {}, chunks_indexed |-> 0])
    /\ UNCHANGED <<panelVars, engineVars, canvasVars, embedVars, ingestVars, chatVars,
                   collection, request, calls, world>>

\* retrieve_context_from_kb of a workflow request served while an upload is
\* under way: the rows col.query can draw its results from are the rows the
\* collection holds
QueryCollection ==
    /\ upload # Nothing
    /\ world' = [kind |-> "query", entries |-> collection,
                 uploading |-> upload # Nothing]
    /\ UNCHANGED <<panelVars, engineVars, canvasVars, embedVars, ingestVars, chatVars,
                   indexVars, request, response, calls>>

NextIngest == UploadDoc \/ IngestPdfBytes \/ AbortUpload \/ QueryCollection

SpecIngest == InitIngest /\ [][NextIngest]_vars

(* ---- Canvas ---- *)
InitCanvas ==
    /\ settings = BareSettings
    /\ EmbedIdle /\ IngestIdle /\ RunIdle /\ ChatIdle /\ LaterIdle

\* a palette item is clicked, each click in a millisecond of its own (clock
\* counts the milliseconds since the canvas was last empty)
addComponent ==
    /\ Len(canvas.nodes) < MaxCanvasNodes
    /\ \E component \in COMPONENTS, now \in {clock + 1} :
        /\ canvas' = [canvas EXCEPT !.nodes = Append(@, newNode(component, now))]
        /\ clock' = now
    /\ UNCHANGED <<panelVars, engineVars, indexVars, embedVars, ingestVars, runVars, chatVars,
                   checked>>

\* a line is drawn from a component to the next one in the list
onConnect ==
    /\ \E k \in 1..(Len(canvas.nodes) - 1) :
        /\ canvas.nodes[k].id # canvas.nodes[k + 1].id
        /\ canvas' = [canvas EXCEPT !.edges =
                          @ \cup {[source |-> canvas.nodes[k].id,
                                   target |-> canvas.nodes[k + 1].id]}]
    /\ UNCHANGED <<panelVars, engineVars, indexVars, embedVars, ingestVars, runVars, chatVars,
                   clock, checked>>

handleBuildStack ==
    /\ \E errors \in {validationErrorsOf(canvas.nodes, canvas.edges)} :
        /\ canvas' = [canvas EXCEPT
                          !.validationErrors = errors,
                          !.notification = IF errors = <<>> THEN N_Valid ELSE N_Failed,
                          !.notificationType = IF errors = <<>> THEN "success"
                                               ELSE "error"]
        /\ checked' = checkedAs("build", canvas.nodes, canvas.edges, errors, FALSE)
    /\ UNCHANGED <<panelVars, engineVars, indexVars, embedVars, ingestVars, runVars, chatVars,
                   clock>>

\* handleSave; onSave is App.handleWorkflowSave, which keeps the definition
handleSave ==
    /\ \E errors \in {validationErrorsOf(canvas.nodes, canvas.edges)} :
        /\ canvas' = [canvas EXCEPT
                          !.validationErrors = errors,
                          !.notification = IF errors = <<>> THEN N_Saved
                                           ELSE N_CannotSave,
                          !.notificationType = IF errors = <<>> THEN "success"
                                               ELSE "error"]
        /\ workflowDefinition' =
               IF errors = <<>> THEN buildDefinition(canvas.nodes, canvas.edges)
               ELSE workflowDefinition
        /\ checked' = checkedAs("save", canvas.nodes, canvas.edges, errors,
                                errors = <<>>)
    /\ UNCHANGED <<panelVars, engineVars, indexVars, embedVars, ingestVars, runVars, clock,
                   query, customPrompt, chat, loading, inflight, settled>>

\* Clear All, tried on canvases that have not been saved yet
clearWorkflow ==
    /\ workflowDefinition = Nothing
    /\ canvas' = [nodes |-> <<>>, edges |-> {}, validationErrors |-> <<>>,
                  notification |-> N_Cleared, notificationType |-> "info"]
    /\ clock' = 0
    /\ UNCHANGED <<panelVars, engineVars, indexVars, embedVars, ingestVars, runVars, chatVars,
                   checked>>

\* setTimeout(() => setNotification(''), 4000)
notificationExpires ==
    /\ canvas.notification # ""
    /\ canvas' = [canvas EXCEPT !.notification = ""]
    /\ UNCHANGED <<panelVars, engineVars, indexVars, embedVars, ingestVars, runVars, chatVars,
                   clock, checked>>

NextCanvas ==
    \/ addComponent
    \/ onConnect
    \/ handleBuildStack
    \/ handleSave
    \/ clearWorkflow
    \/ notificationExpires

SpecCanvas == InitCanvas /\ [][NextCanvas]_vars

(* ---- PalettePanel and Clear All, with the clock as Date.now() reads it ---- *)
MaxClock == 3        \* the last millisecond Date.now() reaches

InitPalette ==
    /\ settings = BareSettings
    /\ EmbedIdle /\ IngestIdle /\ RunIdle /\ ChatIdle /\ LaterIdle

\* a palette item is clicked; Date.now() returns the millisecond of the
\* click before, or a later one
addComponentNow ==
    /\ Len(canvas.nodes) < MaxCanvasNodes
    /\ \E component \in COMPONENTS, now \in {clock, clock + 1} :
        /\ now <= MaxClock
        /\ canvas' = [canvas EXCEPT !.nodes = Append(@, newNode(component, now))]
        /\ clock' = now
    /\ UNCHANGED <<panelVars, engineVars, indexVars, embedVars, ingestVars, runVars, chatVars,
                   checked>>

\* Clear All; the clock runs on
clearAll ==
    /\ canvas.nodes # <<>>
    /\ canvas' = [nodes |-> <<>>, edges |-> {}, validationErrors |-> <<>>,
                  notification |-> N_Cleared, notificationType |-> "info"]
    /\ UNCHANGED <<panelVars, engineVars, indexVars, embedVars, ingestVars, runVars, chatVars,
                   clock, checked>>

NextPalette == addComponentNow \/ clearAll

SpecPalette == InitPalette /\ [][NextPalette]_vars

(* ---- ConfigPanel on a canvas of three nodes ---- *)
\* a KnowledgeBase and an LLMEngine node typed by their component, and an
\* Output node as the palette creates it (type 'default')
InitConfig ==
    /\ settings = BareSettings
    /\ EmbedIdle /\ IngestIdle /\ RunIdle /\ ChatIdle /\ EngineIdle /\ IndexIdle
    /\ PanelIdle
    /\ clock = 3
    /\ checked = Nothing
    /\ canvas = [nodes |-> <<placed(newNode("KnowledgeBase", 1), "KnowledgeBase", 0),
                             placed(newNode("LLMEngine", 2), "LLMEngine", 0),
                             placed(newNode("Output", 3), "default", 0)>>,
                 edges |-> {}, validationErrors |-> <<>>,
                 notification |-> "", notificationType |-> "success"]

\* onNodeClick={(event, node) => setSelectedNode(node)}, and the panel's
\* effect on [node]: setConfig(node.data?.config || {})
onNodeClick ==
    /\ \E k \in DOMAIN canvas.nodes :
        panel' = [node |-> canvas.nodes[k], config |-> canvas.nodes[k].data.config]
    /\ checked' = [kind |-> "onNodeClick"]
    /\ UNCHANGED <<engineVars, indexVars, embedVars, ingestVars, runVars, chatVars,
                   canvas, clock>>

\* onPaneClick={() => setSelectedNode(null)}; the effect leaves config alone
onPaneClick ==
    /\ panel.node # Nothing
    /\ panel' = [panel EXCEPT !.node = Nothing]
    /\ checked' = [kind |-> "onPaneClick"]
    /\ UNCHANGED <<engineVars, indexVars, embedVars, ingestVars, runVars, chatVars,
                   canvas, clock>>

\* onNodesChange: a node is dragged to another position
onNodesChange ==
    /\ \E k \in DOMAIN canvas.nodes, position \in Positions :
        /\ position # canvas.nodes[k].position
        /\ canvas' = [canvas EXCEPT !.nodes[k].position = position]
    /\ checked' = [kind |-> "onNodesChange"]
    /\ UNCHANGED <<engineVars, indexVars, embedVars, ingestVars, runVars, chatVars,
                   panel, clock>>

\* handleConfigChange(key, value), from a control of the form rendered for
\* the node; checked keeps the nodes of the canvas before and after it
handleConfigChange ==
    /\ panel.node # Nothing
    /\ \E option \in FormOptions(panel.node.type) :
        \E newConfig \in {withKey(panel.config, option[1], option[2])} :
        \E nds \in {onNodeUpdate(canvas.nodes, panel.node.id,
                                  updatedNodeOf(panel.node, newConfig))} :
            /\ panel' = [panel EXCEPT !.config = newConfig]
            /\ canvas' = [canvas EXCEPT !.nodes = nds]
            /\ checked' = [kind |-> "handleConfigChange", id |-> panel.node.id,
                           key |-> option[1], toggled |-> "",
                           before |-> canvas.nodes, after |-> nds]
    /\ UNCHANGED <<engineVars, indexVars, embedVars, ingestVars, runVars, chatVars, clock>>

\* handleDocumentToggle(docId), from a checkbox of the KnowledgeBase form
handleDocumentToggle ==
    /\ panel.node # Nothing
    /\ panel.node.type = "KnowledgeBase"
    /\ \E docId \in DocumentIds :
        \E newConfig \in {withKey(panel.config, "selectedDocuments",
                                   newDocs(selectedDocumentsOf(panel.config), docId))} :
        \E nds \in {onNodeUpdate(canvas.nodes, panel.node.id,
                                  updatedNodeOf(panel.node, newConfig))} :
            /\ panel' = [panel EXCEPT !.config = newConfig]
            /\ canvas' = [canvas EXCEPT !.nodes = nds]
            /\ checked' = [kind |-> "handleConfigChange", id |-> panel.node.id,
                           key |-> "selectedDocuments", toggled |-> docId,
                           before |-> canvas.nodes, after |-> nds]
    /\ UNCHANGED <<engineVars, indexVars, embedVars, ingestVars, runVars, chatVars, clock>>

NextConfig ==
    \/ onNodeClick
    \/ onPaneClick
    \/ onNodesChange
    \/ handleConfigChange
    \/ handleDocumentToggle

SpecConfig == InitConfig /\ [][NextConfig]_vars

(* ---- ChatModal ---- *)
KeyedSettings ==
    [EMBEDDING_PROVIDER |-> "gemini", has_gemini_key |-> FALSE,
     has_openai_key |-> TRUE, openai_client |-> TRUE]

\* the bot text of the message of the given request in a chat, when that
\* message is there and shows a reply (m.bot && ...); Undefined otherwise
ReplyIn(c, rid) ==
    IF \E k \in DOMAIN c : c[k].rid = rid /\ JsTruthy(c[k].bot)
    THEN c[CHOOSE k \in DOMAIN c : c[k].rid = rid /\ JsTruthy(c[k].bot)].bot
    ELSE Undefined
IsStub(t) == IsPrefix(S_TestResponse, t) \/ IsPrefix(S_ServiceError, t)

InitChat ==
    /\ settings \in {BareSettings, KeyedSettings}
    /\ EmbedIdle /\ IngestIdle /\ RunIdle /\ LaterIdle
    /\ query = <<>>
    /\ customPrompt = <<>>
    /\ chat = <<>>
    /\ loading = FALSE
    /\ inflight = Nothing
    /\ settled = {}
    /\ workflowDefinition \in {Nothing, savedRagWorkflow}

\* onChange of the query input, which is disabled while loading
SetQuery ==
    /\ ~loading
    /\ \E q \in TypedQueries : query' = q
    /\ UNCHANGED <<panelVars, engineVars, indexVars, canvasVars, embedVars, ingestVars, runVars, customPrompt, chat, loading,
                   inflight, settled, workflowDefinition>>

\* the suggestion buttons, shown while the chat is empty
ClickSuggestion ==
    /\ chat = <<>>
    /\ \E sg \in Suggestions : query' = sg
    /\ UNCHANGED <<panelVars, engineVars, indexVars, canvasVars, embedVars, ingestVars, runVars, customPrompt, chat, loading,
                   inflight, settled, workflowDefinition>>

\* onChange of the custom instructions textarea
SetCustomPrompt ==
    /\ \E cp \in TypedPrompts : customPrompt' = cp
    /\ UNCHANGED <<panelVars, engineVars, indexVars, canvasVars, embedVars, ingestVars, runVars, query, chat, loading,
                   inflight, settled, workflowDefinition>>

\* the mutant of C25: an input and a send button that stay enabled
sendDisabled_never == FALSE

\* disabled={loading} of the query input, disabled={loading || !query.trim()}
\* of the send button: whether a request in flight keeps both from firing
sendDisabled == loading

\* submit() up to its await; reached by Enter in the input (disabled while
\* loading) or by the send button (disabled while loading or without text)
submit ==
    /\ ~sendDisabled
    /\ trim(query) # <<>>
    /\ Cardinality(settled) < MaxSubmits
    /\ LET rid == Cardinality(settled) + 1
           currentQuery == query
       IN  /\ loading' = TRUE
           /\ query' = <<>>
           /\ chat' = Append(chat, [user |-> currentQuery, bot |-> None, rid |-> rid])
           /\ inflight' = [kind |-> "pending", rid |-> rid, query |-> currentQuery,
                           customPrompt |-> IF customPrompt # <<>> THEN customPrompt
                                            ELSE None]
    /\ UNCHANGED <<panelVars, engineVars, indexVars, canvasVars, embedVars, ingestVars, runVars, customPrompt, settled,
                   workflowDefinition>>

\* submit() from its await to its end: the promise resolves with the answer
\* or rejects, the last message of the chat gets the text, loading is cleared
submitResumes ==
    /\ inflight # Nothing
    /\ \E net \in {"ok", "fail"}, stored \in StoredDocs, oa \in OpenAIEmbedOutcomes,
          llm \in LlmOutcomes :
        \E p \in {handleRunWorkflow(inflight.query, inflight.customPrompt, net,
                                    stored, oa, llm)} :
        \E newChat \in {setLastBot(chat, IF p.kind = "resolved" THEN p.answer
                                         ELSE S_Apology)} :
        \E reply \in {ReplyIn(newChat, inflight.rid)} :
            /\ chat' = newChat
            /\ settled' = settled \cup
                   {[rid |-> inflight.rid, how |-> p.kind,
                     generationFailed |->
                         (llm.kind = "raise"
                          \/ ~(settings.has_openai_key /\ settings.openai_client)),
                     replied |-> reply # Undefined,
                     apology |-> reply = S_Apology,
                     stub |-> IsStub(reply),
                     loading |-> FALSE]}
    /\ loading' = FALSE
    /\ inflight' = Nothing
    /\ UNCHANGED <<panelVars, engineVars, indexVars, canvasVars, embedVars, ingestVars, runVars, query, customPrompt,
                   workflowDefinition>>

\* the clear button, shown while the chat has messages
clearChat ==
    /\ chat # <<>>
    /\ chat' = <<>>
    /\ query' = <<>>
    /\ UNCHANGED <<panelVars, engineVars, indexVars, canvasVars, embedVars, ingestVars, runVars, customPrompt, loading, inflight,
                   settled, workflowDefinition>>

NextChat ==
    \/ SetQuery
    \/ ClickSuggestion
    \/ SetCustomPrompt
    \/ submit
    \/ submitResumes
    \/ clearChat

SpecChat == InitChat /\ [][NextChat]_vars

(* ---- App: handleWorkflowSave and handleRunWorkflow ---- *)
\* definitions Canvas.handleSave hands to onSave
SavedDefinitions == {savedRagWorkflow, promptedWorkflow}

InitApp ==
    /\ settings \in {BareSettings, KeyedSettings}
    /\ EmbedIdle /\ IngestIdle /\ RunIdle /\ ChatIdle /\ LaterIdle

\* handleWorkflowSave(definition), at any time, also while a run is pending;
\* checked keeps what the save handed over
handleWorkflowSave ==
    /\ \E definition \in SavedDefinitions :
        /\ workflowDefinition' = definition
        /\ checked' = [kind |-> "save", handed |-> TRUE, definition |-> definition]
    /\ UNCHANGED <<panelVars, engineVars, indexVars, embedVars, ingestVars, runVars, canvas, clock,
                   query, customPrompt, chat, loading, inflight, settled>>

\* handleRunWorkflow(query, customPrompt) up to its await: the request goes
\* out; world keeps what had been saved last when it was called
runWorkflowSent ==
    /\ request = Nothing
    /\ \E q \in Queries, custom_prompt \in CustomPrompts :
        request' = [kind |-> "run", definition |-> activeWorkflow(workflowDefinition),
                    query |-> q, custom_prompt |-> custom_prompt]
    /\ world' = [kind |-> "sent", lastSaved |-> checked]
    /\ UNCHANGED <<panelVars, engineVars, indexVars, canvasVars, embedVars, ingestVars, chatVars,
                   response, calls>>

\* handleRunWorkflow from its await on: the HTTP exchange ends (net), and the
\* promise resolves with response.data.answer or rejects with the error
runWorkflowSettles ==
    /\ request # Nothing
    /\ response = Nothing
    /\ \E net \in {"ok", "fail"}, stored \in StoredDocs, oa \in OpenAIEmbedOutcomes,
          llm \in LlmOutcomes :
        \E r \in {run_workflow_endpoint(request.definition, request.query,
                                        request.custom_prompt, stored, oa, llm)} :
            /\ response' = settleWith(net, r)
            /\ world' = [kind |-> "settled", lastSaved |-> world.lastSaved, net |-> net,
                         reply |-> [kind |-> r.kind, answer |-> r.answer]]
    /\ UNCHANGED <<panelVars, engineVars, indexVars, canvasVars, embedVars, ingestVars, chatVars,
                   request, calls>>

\* the caller has taken the answer or the error
runWorkflowDone ==
    /\ response # Nothing
    /\ request' = Nothing /\ response' = Nothing /\ world' = Nothing
    /\ UNCHANGED <<panelVars, engineVars, indexVars, canvasVars, embedVars, ingestVars, chatVars, calls>>

NextApp ==
    \/ handleWorkflowSave
    \/ runWorkflowSent
    \/ runWorkflowSettles
    \/ runWorkflowDone

SpecApp == InitApp /\ [][NextApp]_vars

(***************************************************************************)
(* The claims.                                                             *)
(***************************************************************************)
NodeTypesOf(definition) == {definition.nodes[k].type : k \in DOMAIN definition.nodes}
NodeIdsOf(definition) == {definition.nodes[k].id : k \in DOMAIN definition.nodes}
Served == request # Nothing
TotalProviderFailure ==
    ~(settings.has_openai_key /\ settings.openai_client) \/ world.llm.kind = "raise"
StubPrefixed(answer) == IsStub(answer)
Characters(str) == \A k \in DOMAIN str : str[k] # "None"

\* C1: every vector create_embedding returns has exactly DIMENSION (1536)
\* entries, whichever provider or fallback produced it.
C1_EmbedHasDimension ==
    \A k \in DOMAIN embedLog : Len(embedLog[k].vec) = DIMENSION

C3_MissingEntryFailsFast ==
    (Served /\ Len(request.definition.nodes) >= 1
            /\ "UserQuery" \notin NodeTypesOf(request.definition)) =>
        /\ response.kind = "error"
        /\ response.error = E_MissingUserQuery
        /\ calls = <<>>

C3_Witness ==
    /\ Served
    /\ Len(request.definition.nodes) >= 1
    /\ "UserQuery" \notin NodeTypesOf(request.definition)
    /\ "KnowledgeBase" \in NodeTypesOf(request.definition)
    /\ settings.has_openai_key /\ settings.openai_client
    /\ response.kind = "error"

\* C4: a graph with zero nodes is refused with a "no nodes" error of its own,
\* not the missing-entry error, and gets no answer.
C4_NoNodesError ==
    (Served /\ Len(request.definition.nodes) = 0) =>
        /\ response.kind = "error"
        /\ response.error # E_MissingUserQuery

\* C5: a graph with an edge whose source or target is no node id is refused:
\* no handler runs (no provider call) and no answer is produced.
C5_DanglingEdgeRejected ==
    (Served /\ \E e \in request.definition.edges :
                   e.source \notin NodeIdsOf(request.definition)
                   \/ e.target \notin NodeIdsOf(request.definition)) =>
        /\ response.kind = "error"
        /\ calls = <<>>

\* C6: a graph with a node whose type is none of UserQuery, KnowledgeBase,
\* LLMEngine, Output is refused.
C6_UnknownTypeRejected ==
    (Served /\ ~(NodeTypesOf(request.definition) \subseteq NodeTypes)) =>
        response.kind = "error"

\* C7: for a non-empty text and a positive size, the chunks concatenated in
\* order are the text.
C7_ChunkRoundTrip ==
    (chunks # Nothing /\ doc # <<>> /\ chunkSize > 0) => Flatten(chunks.list) = doc

C7_Witness ==
    /\ chunks # Nothing
    /\ Len(chunks.list) >= 2
    /\ Len(chunks.list[Len(chunks.list)]) < chunkSize
    /\ Flatten(chunks.list) = doc

ComposedPrompt ==
    S_Query \o request.query
        \o (IF request.custom_prompt \in {None, <<>>} THEN <<>>
            ELSE S_Sep \o S_Instructions \o request.custom_prompt)

C9_StubEchoesPrompt ==
    (Served /\ request.definition = defaultWorkflow /\ ~settings.has_openai_key) =>
        /\ response.kind = "answer"
        /\ response.answer # <<>>
        /\ Characters(response.answer)
        /\ IsPrefix(S_TestResponse, response.answer)
        /\ Contains(response.answer, Take(ComposedPrompt, PROMPT_ECHO))
        /\ Len(response.answer) <= Len(S_TestResponse) + PROMPT_ECHO + Len(S_TestTail)

C9_Witness ==
    /\ Served
    /\ request.definition = defaultWorkflow
    /\ ~settings.has_openai_key
    /\ Len(ComposedPrompt) > PROMPT_ECHO
    /\ response.kind = "answer"
    /\ Contains(response.answer, Take(ComposedPrompt, PROMPT_ECHO))
    /\ ~Contains(response.answer, ComposedPrompt)

\* C10: every query submitted in the chat gets its reply: when submit() has
\* run to its end the message of that query holds the answer (a prefixed stub
\* when generation failed) or, when the request failed, the error message,
\* and loading has been cleared.
C10_EveryQueryReplied ==
    \A s \in settled :
        /\ s.replied
        /\ s.how = "rejected" => s.apology
        /\ (s.how = "resolved" /\ s.generationFailed) => s.stub
        /\ s.loading = FALSE

\* the nodes of a given type in the graph of the request being served
NodesOfType(t) ==
    {k \in DOMAIN request.definition.nodes : request.definition.nodes[k].type = t}
Answered == Served /\ response.kind = "answer"

\* C11: when the retrieval step of a graph with a KnowledgeBase node returns
\* no chunk, the run is not an error: it ends with an answer, and the prompt
\* handed to the generation step has no context section, only the query (and
\* the instructions).
C11_EmptyRetrievalNoContext ==
    (Served /\ response.kind # "error" /\ NodesOfType("KnowledgeBase") # {}
            /\ world.docs = <<>>) =>
        /\ response.kind = "answer"
        /\ ~Contains(world.prompt, S_Context)
        /\ world.prompt = ComposedPrompt

C11_Witness ==
    /\ Answered
    /\ NodesOfType("KnowledgeBase") # {}
    /\ Contains(calls, <<"col.query">>)
    /\ world.stored = <<>>
    /\ world.docs = <<>>
    /\ ~Contains(world.prompt, S_Context)

\* C12: the retrieval step of a KnowledgeBase node returns at most maxResults
\* chunks (5 when the node sets none), best first by ascending distance, none
\* of them with a similarity below similarityThreshold (0.3 when the node
\* sets none).
MaxResultsOf(config) ==
    IF config.maxResults # 0 THEN config.maxResults ELSE DEFAULT_MAX_RESULTS
ThresholdOf(config) ==
    IF config.similarityThreshold # 0 THEN config.similarityThreshold
    ELSE DEFAULT_THRESHOLD

C12_RetrieveHonoursConfig ==
    Answered =>
        \A k \in NodesOfType("KnowledgeBase") :
            /\ Len(world.docs) <= MaxResultsOf(request.definition.nodes[k].config)
            /\ \A i, j \in DOMAIN world.docs :
                   i < j => DocDistance(world.docs[i]) <= DocDistance(world.docs[j])
            /\ \A i \in DOMAIN world.docs :
                   DocSimilarity(world.docs[i])
                       >= ThresholdOf(request.definition.nodes[k].config)

\* C19: the prompt handed to the generation step is, in this order, the
\* context section (only when the retrieved context is not empty), the query
\* section (always), the instructions section (only when the caller gave an
\* instruction), and nothing else.
C19_PromptOrder ==
    Answered =>
        world.prompt =
            (IF Join(S_Sep, world.docs) # <<>>
             THEN S_Context \o Join(S_Sep, world.docs) \o S_Sep ELSE <<>>)
            \o S_Query \o request.query
            \o (IF request.custom_prompt \in {None, <<>>} THEN <<>>
                ELSE S_Sep \o S_Instructions \o request.custom_prompt)

C19_Witness ==
    /\ Answered
    /\ Len(world.docs) >= 2
    /\ request.custom_prompt = P_Brief
    /\ IsPrefix(S_Context \o Doc_A \o S_Sep \o Doc_B, world.prompt)
    /\ Contains(world.prompt,
                S_Sep \o S_Query \o request.query \o S_Sep \o S_Instructions \o P_Brief)

\* C20: when an LLMEngine node's config.customPrompt is set, the instruction
\* in the prompt is the caller's custom prompt if the caller gave one, and
\* the node's config.customPrompt otherwise.
C20_InstructionPrecedence ==
    Answered =>
        \A k \in NodesOfType("LLMEngine") :
            request.definition.nodes[k].config.customPrompt # <<>> =>
                Contains(world.prompt,
                         S_Instructions
                             \o (IF request.custom_prompt \in {None, <<>>}
                                 THEN request.definition.nodes[k].config.customPrompt
                                 ELSE request.custom_prompt))

\* C16: while run_workflow executes, from its first statement on and after
\* each step, user_query is the query the caller passed.
C16_UserQueryKept ==
    frame # Nothing => frame.user_query = request.query

C16_Witness ==
    /\ frame # Nothing
    /\ frame.pc = "return"
    /\ frame.ran = <<"KnowledgeBase", "LLMEngine">>
    /\ frame.user_query = request.query
    /\ Contains(frame.final_prompt, S_Query \o request.query)

\* C17: when run_workflow is about to return, the work it carried out is that
\* of the graph's KnowledgeBase and LLMEngine nodes, each node once, in an
\* order of the nodes in which every edge's source comes before its target.
RunsInOrder(definition, ran) ==
    \E order \in [1..Len(definition.nodes) -> 1..Len(definition.nodes)] :
        /\ \A i, j \in DOMAIN order : i # j => order[i] # order[j]
        /\ \A e \in definition.edges :
               (e.source \in DOMAIN order /\ e.target \in DOMAIN order) =>
                   \E i, j \in DOMAIN order :
                       i < j /\ order[i] = e.source /\ order[j] = e.target
        /\ ran = SelectSeq([i \in DOMAIN order |-> definition.nodes[order[i]].type],
                           LAMBDA t : t \in {"KnowledgeBase", "LLMEngine"})

C17_TopologicalOrder ==
    (frame # Nothing /\ frame.pc = "return") =>
        RunsInOrder(frame.workflow_definition, frame.ran)

\* ceil(a / b) for b > 0
CeilDiv(a, b) == (a + b - 1) \div b

\* C13: an ingestion that returns has handed the index exactly ceil(L/S)
\* chunks of the text (L its length, S the chunk size), numbered 0 .. n-1 in
\* text order with ids made of the filename and the number, and the
\* chunks_indexed it returns is the number of chunks it stored.
C13_IngestCounts ==
    \A k \in DOMAIN ingestLog :
        ingestLog[k].kind = "added" =>
            /\ Len(ingestLog[k].batch) = CeilDiv(Len(ingestLog[k].text), chunkSize)
            /\ \A i \in DOMAIN ingestLog[k].batch :
                   /\ ingestLog[k].batch[i].id = chunk_id(ingestLog[k].filename, i - 1)
                   /\ ingestLog[k].batch[i].metadata.chunk = i - 1
                   /\ ingestLog[k].batch[i].document =
                          SubSeq(ingestLog[k].text, (i - 1) * chunkSize + 1,
                                 Min(i * chunkSize, Len(ingestLog[k].text)))
            /\ ingestLog[k].chunks_indexed = Cardinality(ingestLog[k].wrote)

\* C14: an id names at most one entry of the collection, and after an
\* ingestion has made its col.add call the collection holds, under each id of
\* that call, the entry that call handed over (an existing entry is replaced).
C14_UpsertReplaces ==
    /\ \A e1, e2 \in collection : e1.id = e2.id => e1 = e2
    /\ \A k \in DOMAIN ingestLog :
           (k = Len(ingestLog) /\ ingestLog[k].kind \in {"added", "raised"}) =>
               Range(ingestLog[k].batch) \subseteq collection

\* C15: every entry the collection holds, and every entry a query saw, also
\* while an upload was under way, is one whole row (id, document, metadata,
\* embedding) handed over by one col.add call that did not raise; an upload
\* that was aborted, refused or whose col.add raised changed nothing.
WholeRows ==
    UNION {Range(ingestLog[k].batch) : k \in {j \in DOMAIN ingestLog :
                                                 ingestLog[j].kind = "added"}}

C18_FullWorkflowValid ==
    (checked # Nothing /\ checked.allFour /\ checked.allTouched) =>
        /\ checked.valid
        /\ checked.kind = "save" => checked.handed

C18_Witness ==
    /\ checked # Nothing
    /\ checked.kind = "save"
    /\ checked.allFour /\ checked.allTouched
    /\ checked.valid /\ checked.handed
    /\ canvas.notification = N_Saved
    /\ canvas.validationErrors = <<>>
    /\ workflowDefinition = buildDefinition(canvas.nodes, canvas.edges)
    /\ Len(workflowDefinition.nodes) = 4

\* C21: when the primary provider (Gemini) is configured, its call fails for
\* whatever reason and a secondary provider (OpenAI) is configured, the
\* secondary provider is called next, before the hash fallback, and the
\* failed provider is called only once.
GeminiIsPrimary == settings.EMBEDDING_PROVIDER = "gemini" /\ settings.has_gemini_key

C21_SecondaryBeforeFallback ==
    \A k \in DOMAIN embedLog :
        (GeminiIsPrimary /\ settings.has_openai_key /\ embedLog[k].gem.kind = "raise") =>
            /\ Len(embedLog[k].tried) >= 2
            /\ embedLog[k].tried[1] = "gemini"
            /\ embedLog[k].tried[2] = "openai"
            /\ \A i \in 2..Len(embedLog[k].tried) : embedLog[k].tried[i] # "gemini"

\* C22: a vector a provider returned with fewer than DIMENSION entries comes
\* back from create_embedding as that vector followed by zeros, DIMENSION
\* entries in all.
ZeroPadded(v, n) == v \o [i \in 1..(n - Len(v)) |-> 0]

C22_ShortVectorPadded ==
    \A k \in DOMAIN embedLog :
        (embedLog[k].tried = <<"gemini">> /\ embedLog[k].gem.len < DIMENSION) =>
            embedLog[k].vec =
                ZeroPadded(ProviderVector(embedLog[k].gem.len, embedLog[k].gem.fill), DIMENSION)

\* C23: handleRunWorkflow sends the definition saved last when a save has
\* been made and the built-in workflow UserQuery -> LLMEngine -> Output
\* otherwise; its promise resolves with the answer field of the response and
\* rejects when the request fails.
BuiltinWorkflowShape(definition) ==
    /\ [k \in DOMAIN definition.nodes |-> definition.nodes[k].type]
           = <<"UserQuery", "LLMEngine", "Output">>
    /\ definition.edges =
           {[source |-> definition.nodes[k].id, target |-> definition.nodes[k + 1].id]
              : k \in 1..2}

RequestFailed == world.net = "fail" \/ world.reply.kind = "exception"

C24_SavedDefinitionValid ==
    workflowDefinition # Nothing =>
        /\ "UserQuery" \in NodeTypesOf(workflowDefinition)
        /\ "Output" \in NodeTypesOf(workflowDefinition)
        /\ workflowDefinition.edges # {}
        /\ NodeIdsOf(workflowDefinition) \subseteq connectedNodes(workflowDefinition.edges)

\* a saved definition outlives the canvas it was built from
C24_Witness ==
    /\ workflowDefinition # Nothing
    /\ Len(workflowDefinition.nodes) = 3
    /\ Len(canvas.nodes) = 4
    /\ validationErrorsOf(canvas.nodes, canvas.edges) # <<>>

\* C27: the 'Valid Workflow' indicator is on the screen only while the
\* nodes and edges of the canvas pass validateWorkflow.
ValidIndicatorShown == canvas.validationErrors = <<>> /\ Len(canvas.nodes) > 0

C27_IndicatorMeansValid ==
    ValidIndicatorShown => validationErrorsOf(canvas.nodes, canvas.edges) = <<>>

\* C25: while a request of the ChatModal is in flight no second one is
\* started: loading is set for as long as the request is out, and no step
\* taken while loading puts another request in its place.
C25_OneRequestInFlight ==
    /\ [](inflight # Nothing => loading)
    /\ [][loading => (inflight' = inflight \/ inflight' = Nothing)]_vars

\* the chat was cleared and a suggestion picked while the request is out:
\* there is text to send, and only the disabled controls hold it back
C25_Witness ==
    /\ loading
    /\ inflight # Nothing
    /\ chat = <<>>
    /\ query \in Suggestions
    /\ query # inflight.query

\* C26: a step that writes a reply (answer or error text) into the chat
\* writes it into the message created for the request that is answered,
\* and into no other message.
C26_ReplyToOwnMessage ==
    [][\A k \in DOMAIN chat' :
          (k \in DOMAIN chat /\ chat'[k].bot # chat[k].bot) =>
              /\ inflight # Nothing
              /\ chat[k].rid = inflight.rid
              /\ chat[k].user = inflight.query]_vars

\* the first query was cleared away while pending, the second one answered
C26_Witness ==
    /\ Len(chat) = 1
    /\ chat[1].rid = 2
    /\ JsTruthy(chat[1].bot)
    /\ \E st \in settled : st.rid = 1 /\ ~st.replied
    /\ \E st \in settled : st.rid = 2 /\ st.replied

\* C28: whatever components were added from the palette, two of them in the
\* same millisecond included, and whatever was cleared, no two nodes on the
\* canvas have the same id.
C28_NodeIdsDistinct ==
    \A i, j \in DOMAIN canvas.nodes :
        i # j => canvas.nodes[i].id # canvas.nodes[j].id

\* C29: handleConfigChange changes the given key of the selected node's
\* config and nothing else: the node's other config keys, its id, type,
\* other data and position are what the canvas held just before, and every
\* other node is as it was.
ConfigChanged == checked.kind = "handleConfigChange"

NoDuplicates(list) == \A i, j \in DOMAIN list : i # j => list[i] # list[j]

SelectedOn(nds, id) ==
    selectedDocumentsOf(nds[CHOOSE k \in DOMAIN nds : nds[k].id = id].data.config)

Toggled == ConfigChanged /\ checked.toggled # ""

C30_ToggleInvolution ==
    /\ [](/\ NoDuplicates(selectedDocumentsOf(panel.config))
          /\ \A k \in DOMAIN canvas.nodes :
                NoDuplicates(selectedDocumentsOf(canvas.nodes[k].data.config)))
    /\ [][(/\ Toggled
           /\ Toggled'
           /\ checked'.toggled = checked.toggled
           /\ checked'.id = checked.id) =>
              Range(SelectedOn(checked'.after, checked.id))
                  = Range(SelectedOn(checked.before, checked.id))]_vars

\* the document ticked last is unticked again
C30_Witness ==
    /\ Toggled
    /\ checked.toggled = "d1"
    /\ SelectedOn(checked.before, checked.id) = <<"d2", "d1">>
    /\ SelectedOn(checked.after, checked.id) = <<"d2">>
    /\ selectedDocumentsOf(panel.config) = <<"d2">>

====
